---- MODULE Spec2Model ----
(***************************************************************************)
(* A model of src/c_types.py: the constant evaluator, the function         *)
(* signature parser, the struct layout engine with its memo tables, and    *)
(* the type-map builder.                                                   *)
(*                                                                         *)
(* The C AST is data.  A type is a record tagged by its pycparser class    *)
(* (field c); struct and union nodes live in the table `nodes`, indexed by *)
(* node identity, so that two nodes with equal members stay distinct.      *)
(* An integer literal is the sequence of its characters.                   *)
(***************************************************************************)
EXTENDS Integers, Sequences, FiniteSets, TLC

VARIABLES
    nodes,     \* the struct/union nodes of the AST, by node identity
    ext,       \* ast.ext: the top-level items of the translation unit
    typemap,   \* the TypeMap under construction
    pre,       \* the TypeMap as it was when the last call was entered
    arg,       \* the argument of the last call
    ret,       \* the outcome of the last call
    pc,        \* "idle", "loop" (inside do_parse_struct's for), "done"
    st,        \* do_parse_struct's locals while pc = "loop"
    idx        \* index of the next declaration of the loop

vars == <<nodes, ext, typemap, pre, arg, ret, pc, st, idx>>

None == "None"

(***************************************************************************)
(* AST constructors                                                        *)
(***************************************************************************)
IdentifierType(names) == [c |-> "TypeDecl", inner |-> "IdentifierType", names |-> names]
EnumType(name) == [c |-> "TypeDecl", inner |-> "Enum", name |-> name]
\* TypeDecl wrapping the Struct/Union node n
SUType(n) == [c |-> "TypeDecl", inner |-> "StructUnion", node |-> n]
\* the bare Struct/Union node n, as the type of `struct {...};`
SUNode(n) == [c |-> "StructUnion", node |-> n]
PtrDecl(type) == [c |-> "PtrDecl", type |-> type]
ArrayDecl(type, dim) == [c |-> "ArrayDecl", type |-> type, dim |-> dim]
FuncDecl(args, type) == [c |-> "FuncDecl", args |-> args, type |-> type]

Constant(value) == [c |-> "Constant", value |-> value]
BinaryOp(op, left, right) == [c |-> "BinaryOp", op |-> op, left |-> left, right |-> right]
ID(name) == [c |-> "ID", name |-> name]
NoExpr == [c |-> "None"]

Decl(name, type, bitsize) == [c |-> "Decl", name |-> name, type |-> type, bitsize |-> bitsize]
Typename(type) == [c |-> "Typename", type |-> type]
EllipsisParam == [c |-> "EllipsisParam"]
Typedef(name, type) == [c |-> "Typedef", name |-> name, type |-> type]
FuncDef(decl) == [c |-> "FuncDef", decl |-> decl]
\* fn.args: None, or a ParamList
NoArgs == [c |-> "None"]
ParamList(params) == [c |-> "ParamList", params |-> params]

VoidT == IdentifierType(<<"void">>)
IntT == IdentifierType(<<"int">>)
CharT == IdentifierType(<<"char">>)
UnsignedT == IdentifierType(<<"unsigned">>)

Max(a, b) == IF a >= b THEN a ELSE b

(***************************************************************************)
(* is_void, primitive_size                                                 *)
(***************************************************************************)
is_void(type) ==
    /\ type.c = "TypeDecl"
    /\ type.inner = "IdentifierType"
    /\ type.names = <<"void">>

In(name, names) == \E k \in DOMAIN names : names[k] = name

Count(name, names) == Cardinality({k \in DOMAIN names : names[k] = name})

\* type is the inside of a TypeDecl: an Enum or an IdentifierType
primitive_size(type) ==
    IF type.inner = "Enum" THEN 4
    ELSE IF In("double", type.names) THEN 8
    ELSE IF In("float", type.names) THEN 4
    ELSE IF In("short", type.names) THEN 2
    ELSE IF In("char", type.names) THEN 1
    ELSE IF Count("long", type.names) = 2 THEN 8
    ELSE 4

(***************************************************************************)
(* parse_constant_int                                                      *)
(***************************************************************************)
DecDigits == <<"0", "1", "2", "3", "4", "5", "6", "7", "8", "9">>
LowerHex == <<"a", "b", "c", "d", "e", "f">>
UpperHex == <<"A", "B", "C", "D", "E", "F">>

\* the value of the digit character ch, 99 when ch is no digit
DigitValue(ch) ==
    IF \E k \in DOMAIN DecDigits : DecDigits[k] = ch
    THEN (CHOOSE k \in DOMAIN DecDigits : DecDigits[k] = ch) - 1
    ELSE IF \E k \in DOMAIN LowerHex : LowerHex[k] = ch
    THEN (CHOOSE k \in DOMAIN LowerHex : LowerHex[k] = ch) + 9
    ELSE IF \E k \in DOMAIN UpperHex : UpperHex[k] = ch
    THEN (CHOOSE k \in DOMAIN UpperHex : UpperHex[k] = ch) + 9
    ELSE 99

AllDigits(s, base) == \A k \in DOMAIN s : DigitValue(s[k]) < base

RECURSIVE DigitsValue(_, _)
DigitsValue(s, base) ==
    IF s = <<>> THEN 0
    ELSE DigitsValue(SubSeq(s, 1, Len(s) - 1), base) * base + DigitValue(s[Len(s)])

\* str.rstrip("lLuU")
RECURSIVE rstrip(_)
rstrip(s) ==
    IF s # <<>> /\ s[Len(s)] \in {"l", "L", "u", "U"}
    THEN rstrip(SubSeq(s, 1, Len(s) - 1))
    ELSE s

Ok(v) == [outcome |-> "ok", value |-> v]
Raise(e) == [outcome |-> e, value |-> 0]

PrefixedInt(s, base) ==
    LET digits == SubSeq(s, 3, Len(s))
    IN  IF digits # <<>> /\ AllDigits(digits, base)
        THEN Ok(DigitsValue(digits, base))
        ELSE Raise("ValueError")

\* a literal without a base prefix under base 0: decimal, and a leading zero
\* is accepted only when every digit is zero
UnprefixedInt(s) ==
    IF ~AllDigits(s, 10) THEN Raise("ValueError")
    ELSE IF s[1] = "0" /\ (\E k \in DOMAIN s : s[k] # "0") THEN Raise("ValueError")
    ELSE Ok(DigitsValue(s, 10))

\* Python's int(s, 0) on a string without sign, blanks or underscores
int0(s) ==
    IF s = <<>> THEN Raise("ValueError")
    ELSE IF Len(s) >= 2 /\ s[1] = "0" /\ s[2] \in {"x", "X"} THEN PrefixedInt(s, 16)
    ELSE IF Len(s) >= 2 /\ s[1] = "0" /\ s[2] \in {"o", "O"} THEN PrefixedInt(s, 8)
    ELSE IF Len(s) >= 2 /\ s[1] = "0" /\ s[2] \in {"b", "B"} THEN PrefixedInt(s, 2)
    ELSE UnprefixedInt(s)

RECURSIVE Pow2(_)
Pow2(n) == IF n = 0 THEN 1 ELSE 2 * Pow2(n - 1)

\* lhs << rhs and lhs >> rhs; a negative count raises ValueError
ShiftLeft(lhs, rhs) == IF rhs < 0 THEN Raise("ValueError") ELSE Ok(lhs * Pow2(rhs))
ShiftRight(lhs, rhs) == IF rhs < 0 THEN Raise("ValueError") ELSE Ok(lhs \div Pow2(rhs))

ApplyOp(op, lhs, rhs) ==
    IF op = "+" THEN Ok(lhs + rhs)
    ELSE IF op = "-" THEN Ok(lhs - rhs)
    ELSE IF op = "*" THEN Ok(lhs * rhs)
    ELSE IF op = "<<" THEN ShiftLeft(lhs, rhs)
    ELSE IF op = ">>" THEN ShiftRight(lhs, rhs)
    ELSE Raise("DecompFailure")

RECURSIVE parse_constant_int(_)
parse_constant_int(expr) ==
    IF expr.c = "Constant" THEN
        LET r == int0(rstrip(expr.value))
        IN  IF r.outcome = "ValueError" THEN Raise("DecompFailure") ELSE r
    ELSE IF expr.c = "BinaryOp" THEN
        LET lhs == parse_constant_int(expr.left)
        IN  IF lhs.outcome # "ok" THEN lhs
            ELSE LET rhs == parse_constant_int(expr.right)
                 IN  IF rhs.outcome # "ok" THEN rhs
                     ELSE ApplyOp(expr.op, lhs.value, rhs.value)
    ELSE Raise("DecompFailure")

(***************************************************************************)
(* parse_function                                                          *)
(***************************************************************************)
Param(type, name) == [type |-> type, name |-> name]

\* one iteration of the for loop over fn.args.params; acc holds the locals
ParamStep(acc, a) ==
    IF acc.outcome # "ok" THEN acc
    ELSE IF a.c = "EllipsisParam" THEN [acc EXCEPT !.is_variadic = TRUE]
    ELSE IF a.c = "Decl" THEN [acc EXCEPT !.params = Append(@, Param(a.type, a.name))]
    ELSE IF a.c = "ID" THEN [acc EXCEPT !.outcome = "DecompFailure"]
    ELSE IF is_void(a.type) THEN [acc EXCEPT !.has_void = TRUE]
    ELSE [acc EXCEPT !.params = Append(@, Param(a.type, None))]

RECURSIVE ParamLoop(_, _)
ParamLoop(acc, params) ==
    IF params = <<>> THEN acc
    ELSE ParamLoop(ParamStep(acc, Head(params)), Tail(params))

NoParamsMut(params, has_void, is_variadic) == params = <<>> /\ ~is_variadic

\* "Function declaration without a parameter list"
NoParams(params, has_void, is_variadic) == params = <<>> /\ ~has_void /\ ~is_variadic

parse_function(fn) ==
    LET acc0 == [outcome |-> "ok", params |-> <<>>, is_variadic |-> FALSE, has_void |-> FALSE]
        acc == IF fn.args.c # "None" THEN ParamLoop(acc0, fn.args.params) ELSE acc0
    IN  IF acc.outcome # "ok"
        THEN [outcome |-> acc.outcome]
        ELSE [outcome |-> "ok",
              has_ret_type |-> ~is_void(fn.type),
              ret_type |-> fn.type,
              has_params |-> ~NoParams(acc.params, acc.has_void, acc.is_variadic),
              params |-> acc.params,
              is_variadic |-> acc.is_variadic]

(***************************************************************************)
(* resolve_typedefs, get_struct                                            *)
(***************************************************************************)
RECURSIVE resolve_typedefs(_, _)
resolve_typedefs(type, tm) ==
    IF /\ type.c = "TypeDecl"
       /\ type.inner = "IdentifierType"
       /\ Len(type.names) = 1
       /\ type.names[1] \in DOMAIN tm.typedefs
    THEN resolve_typedefs(tm.typedefs[type.names[1]], tm)
    ELSE type

Struct(fields, size, align) == [fields |-> fields, size |-> size, align |-> align]
StructField(type, name) == [type |-> type, name |-> name]
NoStruct == Struct(<<>>, 0, 0)

AnonKeyShared(n) == 0

\* id(struct): the identity of node n
AnonKey(n) == n

\* [found, struct]: typemap.named_structs.get(name) or typemap.anon_structs.get(id)
get_struct(n, tm) ==
    IF nodes[n].name # None
    THEN IF nodes[n].name \in DOMAIN tm.named_structs
         THEN [found |-> TRUE, struct |-> tm.named_structs[nodes[n].name]]
         ELSE [found |-> FALSE, struct |-> NoStruct]
    ELSE IF AnonKey(n) \in DOMAIN tm.anon_structs
         THEN [found |-> TRUE, struct |-> tm.anon_structs[AnonKey(n)]]
         ELSE [found |-> FALSE, struct |-> NoStruct]

Put(f, k, v) == [x \in DOMAIN f \cup {k} |-> IF x = k THEN v ELSE f[x]]

\* typemap.named_structs[struct.name] = ret, or typemap.anon_structs[id(struct)] = ret
Store(n, struct, tm) ==
    IF nodes[n].name # None
    THEN [tm EXCEPT !.named_structs = Put(@, nodes[n].name, struct)]
    ELSE [tm EXCEPT !.anon_structs = Put(@, AnonKey(n), struct)]

(***************************************************************************)
(* do_parse_struct: the arithmetic of the layout                           *)
(***************************************************************************)
\* (x + a - 1) & -a, for a power of two a
RoundUp(x, a) == ((x + a - 1) \div a) * a

NeverStraddles(offset, bit_offset, width, ssize) == FALSE

\* the bitfield's last bit lies in another ssize unit than offset
Straddles(offset, bit_offset, width, ssize) ==
    offset \div ssize # (offset + (bit_offset + width - 1) \div 8) \div ssize

\* (offset + ssize) & -ssize
NextUnit(offset, ssize) == ((offset + ssize) \div ssize) * ssize

NoAdvance(offset, ssize) == offset

\* offset += ssize
Advance(offset, ssize) == offset + ssize

FlatOffsetInner(offset, off) == off

\* the key under which a flattened inner field is recorded
FlatOffset(offset, off) == offset + off

PaddedSize(is_union, union_size, offset, align) == RoundUp(Max(union_size, offset), align)

\* size = union_size if is_union else (offset + align - 1) & -align
StructSize(is_union, union_size, offset, align) ==
    IF is_union THEN union_size ELSE RoundUp(offset, align)

\* fields[key].append(field) on a defaultdict(list)
AppendField(fields, key, field) ==
    Put(fields, key, (IF key \in DOMAIN fields THEN fields[key] ELSE <<>>) \o <<field>>)

Renamed(sfields, prefix) ==
    [k \in DOMAIN sfields |->
        StructField(sfields[k].type,
                    IF prefix = None THEN sfields[k].name
                    ELSE prefix \o "." \o sfields[k].name)]

\* for off, sfields in substr.fields.items(): for field in sfields:
\*     fields[offset + off].append(...)
\* prefix is decl.name, or None for an anonymous member (fields added as they are)
Flatten(fields, substr, offset, prefix) ==
    LET from(k) == {off \in DOMAIN substr.fields : FlatOffset(offset, off) = k}
        keys == DOMAIN fields \cup {FlatOffset(offset, off) : off \in DOMAIN substr.fields}
    IN  [k \in keys |->
            (IF k \in DOMAIN fields THEN fields[k] ELSE <<>>)
            \o (IF from(k) = {} THEN <<>>
                ELSE Renamed(substr.fields[CHOOSE off \in from(k) : TRUE], prefix))]

\* "if not is_union and bit_offset != 0: bit_offset = 0; offset += 1"
FlushBits(s, is_union) ==
    IF ~is_union /\ s.bit_offset # 0
    THEN [s EXCEPT !.bit_offset = 0, !.offset = @ + 1]
    ELSE s

\* the struct branch of a bitfield of non-zero width
AllocBits(s, width, ssize) ==
    LET s1 == IF Straddles(s.offset, s.bit_offset, width, ssize)
              THEN [s EXCEPT !.bit_offset = 0, !.offset = NextUnit(s.offset, ssize)]
              ELSE s
        bits == s1.bit_offset + width
    IN  [s1 EXCEPT !.offset = @ + bits \div 8, !.bit_offset = bits % 8]

(***************************************************************************)
(* parse_struct, parse_struct_member, do_parse_struct                      *)
(* Each returns its result together with the TypeMap it leaves behind: a   *)
(* raised exception keeps what nested calls have stored.                   *)
(***************************************************************************)
Member(outcome, size, align, has_substr, substr, tm) ==
    [outcome |-> outcome, size |-> size, align |-> align,
     has_substr |-> has_substr, substr |-> substr, tm |-> tm]
MemberFails(outcome, tm) == Member(outcome, 0, 0, FALSE, NoStruct, tm)

Locals(tm) ==
    [outcome |-> "ok", fields |-> <<>>, union_size |-> 0, align |-> 1,
     offset |-> 0, bit_offset |-> 0, tm |-> tm]

RECURSIVE parse_struct(_, _)
RECURSIVE parse_struct_member(_, _)
RECURSIVE do_parse_struct(_, _)

\* the bitfield branch, once width and the type's size and align are known
PlaceBitfield(s, width, m, is_union) ==
    IF width = 0 THEN s
    ELSE IF m.size # m.align \/ m.has_substr THEN [s EXCEPT !.outcome = "DecompFailure"]
    ELSE IF width > m.size * 8 THEN [s EXCEPT !.outcome = "DecompFailure"]
    ELSE IF is_union THEN [s EXCEPT !.union_size = Max(@, m.size)]
    ELSE AllocBits(s, width, m.size)

\* "ssize, salign, substr = parse_struct_member(...); align = max(align, salign)"
BitfieldOfType(s, width, m, is_union) ==
    IF m.outcome # "ok" THEN [s EXCEPT !.outcome = m.outcome, !.tm = m.tm]
    ELSE PlaceBitfield([s EXCEPT !.align = Max(@, m.align), !.tm = m.tm], width, m, is_union)

\* "width = parse_constant_int(decl.bitsize)"
BitfieldOfWidth(s, w, decl, is_union) ==
    IF w.outcome # "ok" THEN [s EXCEPT !.outcome = w.outcome]
    ELSE BitfieldOfType(s, w.value, parse_struct_member(decl.type, s.tm), is_union)

\* the bitfield branch of the loop body
BitfieldStep(s, decl, is_union) ==
    BitfieldOfWidth(s, parse_constant_int(decl.bitsize), decl, is_union)

\* the named member branch, once the member's size and align are known
PlaceMember(s, decl, m, is_union) ==
    IF m.outcome # "ok" THEN [s EXCEPT !.outcome = m.outcome, !.tm = m.tm]
    ELSE
    LET offset == RoundUp(s.offset, m.align)
        own == AppendField(s.fields, offset, StructField(decl.type, decl.name))
    IN  [s EXCEPT !.align = Max(@, m.align),
                  !.tm = m.tm,
                  !.fields = IF m.has_substr
                             THEN Flatten(own, m.substr, offset, decl.name)
                             ELSE own,
                  !.union_size = IF is_union THEN Max(@, m.size) ELSE @,
                  !.offset = IF is_union THEN offset ELSE Advance(offset, m.size)]

\* "if decl.name is not None:"
NamedStep(s, decl, is_union) ==
    PlaceMember(s, decl, parse_struct_member(decl.type, s.tm), is_union)

\* the anonymous aggregate branch, once parse_struct has returned
PlaceAnon(s, decl, r, is_union) ==
    IF r.outcome # "ok" THEN [s EXCEPT !.outcome = r.outcome, !.tm = r.tm]
    ELSE IF nodes[decl.type.node].name # None THEN [s EXCEPT !.tm = r.tm]
    ELSE
    LET offset == RoundUp(s.offset, r.struct.align)
    IN  [s EXCEPT !.align = Max(@, r.struct.align),
                  !.tm = r.tm,
                  !.fields = Flatten(@, r.struct, offset, None),
                  !.union_size = IF is_union THEN Max(@, r.struct.size) ELSE @,
                  !.offset = IF is_union THEN offset
                             ELSE Advance(offset, r.struct.size)]

\* "elif isinstance(type, (ca.Struct, ca.Union)) and type.decls is not None:"
AnonStep(s, decl, is_union) ==
    PlaceAnon(s, decl, parse_struct(decl.type.node, s.tm), is_union)

\* the loop body below the bitfield branch, the bit run flushed
MemberStep(s, decl, is_union) ==
    IF decl.name # None THEN NamedStep(s, decl, is_union)
    ELSE IF decl.type.c = "StructUnion" /\ nodes[decl.type.node].has_decls
    THEN AnonStep(s, decl, is_union)
    ELSE s

\* the body of "for decl in struct.decls"
DeclStep(s, decl, is_union) ==
    IF s.outcome # "ok" THEN s
    ELSE IF decl.c # "Decl" THEN s
    ELSE IF decl.bitsize.c # "None" THEN BitfieldStep(s, decl, is_union)
    ELSE MemberStep(FlushBits(s, is_union), decl, is_union)

RECURSIVE DeclLoop(_, _, _)
DeclLoop(s, decls, is_union) ==
    IF decls = <<>> THEN s
    ELSE DeclLoop(DeclStep(s, Head(decls), is_union), Tail(decls), is_union)

\* the trailing flush, the size, the Struct
FinishFlushed(s, is_union) ==
    Struct(s.fields, StructSize(is_union, s.union_size, s.offset, s.align), s.align)

\* what follows the loop
Finish(s, is_union) == FinishFlushed(FlushBits(s, is_union), is_union)

Parsed(outcome, struct, tm) == [outcome |-> outcome, struct |-> struct, tm |-> tm]

\* do_parse_struct's result from the locals the loop ended with
AfterLoop(s, is_union) ==
    IF s.outcome # "ok" THEN Parsed(s.outcome, NoStruct, s.tm)
    ELSE Parsed("ok", Finish(s, is_union), s.tm)

do_parse_struct(n, tm) ==
    IF nodes[n].decls = <<>> THEN Parsed("AssertionError", NoStruct, tm)
    ELSE AfterLoop(DeclLoop(Locals(tm), nodes[n].decls, nodes[n].is_union),
                   nodes[n].is_union)

\* stores whatever do_parse_struct returned, also when it failed
StoreAlways(n, r) == Parsed(r.outcome, r.struct, Store(n, r.struct, r.tm))

\* "ret = do_parse_struct(struct, typemap)", the store and the return
StoreParsed(n, r) ==
    IF r.outcome # "ok" THEN r
    ELSE Parsed("ok", r.struct, Store(n, r.struct, r.tm))

\* the call on a node without an entry
ParseNew(n, tm) ==
    IF ~nodes[n].has_decls THEN Parsed("DecompFailure", NoStruct, tm)
    ELSE StoreParsed(n, do_parse_struct(n, tm))

\* the call, given what get_struct returned
ParseOrReturn(n, tm, existing) ==
    IF existing.found THEN Parsed("ok", existing.struct, tm) ELSE ParseNew(n, tm)

parse_struct(n, tm) == ParseOrReturn(n, tm, get_struct(n, tm))

ArrayOf(dim, m) ==
    IF m.outcome # "ok" THEN m
    ELSE Member("ok", m.size * dim, m.align, FALSE, NoStruct, m.tm)

\* "dim = parse_constant_int(type.dim)" and the element type
ArrayMember(t, dim, tm) ==
    IF dim.outcome # "ok" THEN MemberFails(dim.outcome, tm)
    ELSE ArrayOf(dim.value, parse_struct_member(t.type, tm))

\* "substr = parse_struct(inner_type, typemap)"
AggregateMember(r) ==
    IF r.outcome # "ok" THEN MemberFails(r.outcome, r.tm)
    ELSE Member("ok", r.struct.size, r.struct.align, TRUE, r.struct, r.tm)

PrimitiveMember(size, tm) == Member("ok", size, size, FALSE, NoStruct, tm)

\* parse_struct_member below "type = resolve_typedefs(type, typemap)"
ResolvedMember(t, tm) ==
    IF t.c = "PtrDecl" THEN Member("ok", 4, 4, FALSE, NoStruct, tm)
    ELSE IF t.c = "ArrayDecl" THEN
        IF t.dim.c = "None" THEN MemberFails("DecompFailure", tm)
        ELSE ArrayMember(t, parse_constant_int(t.dim), tm)
    ELSE IF t.c = "FuncDecl" THEN MemberFails("AssertionError", tm)
    ELSE IF t.inner = "StructUnion" THEN AggregateMember(parse_struct(t.node, tm))
    ELSE PrimitiveMember(primitive_size(t), tm)

parse_struct_member(type, tm) == ResolvedMember(resolve_typedefs(type, tm), tm)

(***************************************************************************)
(* The ASTs the layout engine is run on                                    *)
(*                                                                         *)
(* Node 1 is an untagged struct nested in some inner lists; node 2 is the  *)
(* inner aggregate; node 3 is a second node with node 2's tag and members; *)
(* node 4 is a reference without a member list; node 5 is the outer        *)
(* aggregate, whose members refer to node 2.                               *)
(***************************************************************************)
MaxDecls == 2

Innermost == 1
Inner == 2
Twin == 3
Ref == 4
Outer == 5
NodeIds == {Innermost, Inner, Twin, Ref, Outer}

Lit(ch) == Constant(<<ch>>)
Field(name, type) == Decl(name, type, NoExpr)
Bits(name, type, width) == Decl(name, type, Constant(width))
Node(is_union, name, has_decls, decls) ==
    [is_union |-> is_union, name |-> name, has_decls |-> has_decls, decls |-> decls]

ShortT == IdentifierType(<<"short">>)
UnsignedChar == IdentifierType(<<"unsigned", "char">>)
UnsignedShort == IdentifierType(<<"unsigned", "short">>)
LongLong == IdentifierType(<<"long", "long">>)

InnermostNode == Node(FALSE, None, TRUE, <<Field("p", CharT), Field("q", ShortT)>>)

\* struct B2 { unsigned a : 4; unsigned : 0; unsigned b : 4; }
DeclsB2 ==
    <<Bits("a", UnsignedT, <<"4">>), Bits(None, UnsignedT, <<"0">>),
      Bits("b", UnsignedT, <<"4">>)>>

InnerLists ==
    { <<Field("x", IntT), Field("y", CharT), Field("z", IntT)>>,
      <<Field("x", CharT), Field("y", ArrayDecl(IntT, Lit("0")))>>,
      <<Field("x", ArrayDecl(CharT, Lit("7"))), Field("y", IntT)>>,
      <<Bits(None, IntT, <<"0">>)>>,
      <<Field("x", CharT), Field("n", SUType(Innermost))>>,
      <<Field("x", IntT), Field(None, SUNode(Innermost))>>,
      <<Field("x", IntT), Field("y", ArrayDecl(CharT, NoExpr))>>,
      DeclsB2 }

\* the inner aggregates the rich outer lists are combined with
InnerOf(is_union, tag, decls) == [is_union |-> is_union, tag |-> tag, decls |-> decls]

PlainInners ==
    { InnerOf(FALSE, "S", <<Field("x", IntT), Field("y", CharT), Field("z", IntT)>>),
      InnerOf(FALSE, None, <<Field("x", CharT), Field("y", ArrayDecl(IntT, Lit("0")))>>),
      InnerOf(TRUE, None, <<Field("x", ShortT), Field("y", ArrayDecl(CharT, Lit("3")))>>) }

\* a member of the outer aggregate, before it is given its name
Shape(named, type, bitsize) == [named |-> named, type |-> type, bitsize |-> bitsize]

OuterShapes ==
    { Shape(TRUE, CharT, NoExpr),
      Shape(TRUE, IntT, NoExpr),
      Shape(TRUE, ArrayDecl(ShortT, Lit("0")), NoExpr),
      Shape(TRUE, PtrDecl(SUType(Inner)), NoExpr),
      Shape(TRUE, SUType(Inner), NoExpr),
      Shape(TRUE, IdentifierType(<<"T2">>), NoExpr),
      Shape(TRUE, ArrayDecl(SUType(Inner), Lit("2")), NoExpr),
      Shape(FALSE, SUNode(Inner), NoExpr),
      Shape(TRUE, ArrayDecl(IntT, NoExpr), NoExpr),
      Shape(TRUE, UnsignedChar, Constant(<<"3">>)),
      Shape(FALSE, LongLong, Constant(<<"0">>)),
      Shape(TRUE, SUType(Inner), Constant(<<"1">>)) }

MemberNames == <<"a", "b", "c", "d", "e", "f">>

Named(shapes) ==
    [k \in DOMAIN shapes |->
        Decl(IF shapes[k].named THEN MemberNames[k] ELSE None,
             shapes[k].type, shapes[k].bitsize)]

SeqsUpTo(S, n) == UNION {[1..k -> S] : k \in 1..n}

RichOuterLists == {Named(shapes) : shapes \in SeqsUpTo(OuterShapes, MaxDecls)}

PlainOuterLists ==
    { <<Field("a", SUType(Inner)), Field("b", CharT)>>,
      <<Field("a", IntT), Field(None, SUNode(Inner))>>,
      <<Field("a", SUType(Inner)), Field("b", ArrayDecl(IntT, NoExpr))>>,
      <<Field("a", CharT), Field("b", IdentifierType(<<"T">>))>> }

Tags == {None, "S"}

\* the nodes of the AST: node 1 is there when the inner list declares it
NodesUsed(inner_decls) ==
    IF \E k \in DOMAIN inner_decls :
          inner_decls[k].type \in {SUType(Innermost), SUNode(Innermost)}
    THEN NodeIds
    ELSE NodeIds \ {Innermost}

Ast(inner_union, inner_tag, inner_decls, outer_union, outer_decls) ==
    [n \in NodesUsed(inner_decls) |->
        CASE n = Innermost -> InnermostNode
          [] n = Inner -> Node(inner_union, inner_tag, TRUE, inner_decls)
          [] n = Twin -> Node(inner_union, inner_tag, TRUE, inner_decls)
          [] n = Ref -> Node(inner_union, IF inner_tag = None THEN "Undefined" ELSE inner_tag,
                             FALSE, <<>>)
          [] n = Outer -> Node(outer_union, "Outer", TRUE, outer_decls)]

Asts ==
    {Ast(in.is_union, in.tag, in.decls, ou, ol) :
        in \in PlainInners, ou \in BOOLEAN, ol \in RichOuterLists}
    \cup
    {Ast(iu, tag, il, ou, ol) :
        iu \in BOOLEAN, tag \in Tags, il \in InnerLists,
        ou \in BOOLEAN, ol \in PlainOuterLists}

\* the typedefs of: typedef struct ... T; typedef T T2; typedef unsigned char u8;
Typedefs ==
    [name \in {"T", "T2", "u8"} |->
        CASE name = "T" -> SUType(Inner)
          [] name = "T2" -> IdentifierType(<<"T">>)
          [] name = "u8" -> UnsignedChar]

TypeMap(typedefs) ==
    [typedefs |-> typedefs, var_types |-> <<>>, functions |-> <<>>,
     named_structs |-> <<>>, anon_structs |-> <<>>]

NoCall == [outcome |-> "none"]

(***************************************************************************)
(* Spec: parse_struct called on the nodes of an AST, in any order          *)
(***************************************************************************)
Init ==
    /\ nodes \in Asts
    /\ ext = <<>>
    /\ typemap = TypeMap(Typedefs)
    /\ pre = typemap
    /\ arg = 0
    /\ ret = NoCall
    /\ pc = "idle"
    /\ st = <<>>
    /\ idx = 0

\* the call parse_struct(n, typemap), r being what it returns and leaves behind
Returns(n, r) ==
    /\ typemap' = r.tm
    /\ pre' = typemap
    /\ arg' = n
    /\ ret' = [outcome |-> r.outcome, struct |-> r.struct]
    /\ UNCHANGED <<nodes, ext, pc, st, idx>>

ParseStruct(n) == Returns(n, parse_struct(n, typemap))

Next == \E n \in DOMAIN nodes : ParseStruct(n)

Spec == Init /\ [][Next]_vars

(***************************************************************************)
(* Properties of Spec                                                      *)
(***************************************************************************)
Range(f) == {f[k] : k \in DOMAIN f}
MaxOf(S) == IF S = {} THEN 0 ELSE CHOOSE m \in S : \A x \in S : m >= x

Cached(n) == get_struct(n, typemap).found
Layout(n) == get_struct(n, typemap).struct
\* the nodes with a member list that have a layout in the maps
LaidOut == {n \in DOMAIN nodes : nodes[n].has_decls /\ Cached(n)}

IsBitfield(decl) == decl.c = "Decl" /\ decl.bitsize.c # "None"
IsNamedMember(decl) == decl.c = "Decl" /\ decl.bitsize.c = "None" /\ decl.name # None
IsAnonMember(decl) ==
    /\ decl.c = "Decl" /\ decl.bitsize.c = "None" /\ decl.name = None
    /\ decl.type.c = "StructUnion"
    /\ nodes[decl.type.node].has_decls
    /\ nodes[decl.type.node].name = None

SizeOfType(type) == parse_struct_member(type, typemap).size

\* the storage a declaration of a member list asks for; a zero-width bitfield
\* and a declaration that only introduces a tag ask for none
MemberSize(decl) ==
    IF IsBitfield(decl)
    THEN IF parse_constant_int(decl.bitsize).value = 0 THEN 0 ELSE SizeOfType(decl.type)
    ELSE IF IsNamedMember(decl) THEN SizeOfType(decl.type)
    ELSE IF IsAnonMember(decl) THEN Layout(decl.type.node).size
    ELSE 0

\* C1: a struct's size is a multiple of its alignment; a union's size is the
\* largest size among its members, with no tail padding.
SizeOfStructAndUnion ==
    \A n \in LaidOut :
        IF nodes[n].is_union
        THEN Layout(n).size = MaxOf({MemberSize(d) : d \in Range(nodes[n].decls)})
        ELSE Layout(n).size % Layout(n).align = 0

\* a union laid out without tail padding around a struct that was padded
SizeOfStructAndUnionSeen ==
    /\ Outer \in LaidOut /\ Inner \in LaidOut
    /\ ~nodes[Outer].is_union /\ nodes[Inner].is_union
    /\ Layout(Inner).size % Layout(Inner).align # 0
    /\ Layout(Outer).size > Layout(Inner).size
    /\ \E o \in DOMAIN Layout(Outer).fields : o > 0

\* C2 as stated: every key of S.fields is below S.size.
OffsetsBelowSize ==
    \A n \in LaidOut : \A o \in DOMAIN Layout(n).fields : 0 <= o /\ o < Layout(n).size

\* C2 amended: every recorded field ends within the aggregate, o + size <= S.size,
\* so a key holding a field of non-zero size is below S.size.
FieldsEndWithinSize ==
    \A n \in LaidOut : \A o \in DOMAIN Layout(n).fields :
        \A f \in Range(Layout(n).fields[o]) :
            /\ 0 <= o
            /\ parse_struct_member(f.type, typemap).outcome = "ok"
            /\ o + SizeOfType(f.type) <= Layout(n).size
            /\ SizeOfType(f.type) > 0 => o < Layout(n).size

\* a zero-size member recorded at the very end, after members that take room
FieldsEndWithinSizeSeen ==
    /\ Outer \in LaidOut
    /\ Layout(Outer).size > 0
    /\ Layout(Outer).size \in DOMAIN Layout(Outer).fields
    /\ 0 \in DOMAIN Layout(Outer).fields

IsAggregate(type) ==
    LET t == resolve_typedefs(type, typemap)
    IN  t.c = "TypeDecl" /\ t.inner = "StructUnion"
AggregateOf(type) == resolve_typedefs(type, typemap).node

\* C3: a named member m of aggregate type T is recorded at some p together with
\* "m.x" at p + k for every x at k in T's table; the fields of an untagged
\* anonymous aggregate member appear as they are at p + k.
FlatteningKeepsOffsets ==
    \A n \in LaidOut : \A d \in Range(nodes[n].decls) :
        /\ (IsNamedMember(d) /\ IsAggregate(d.type)) =>
              LET T == Layout(AggregateOf(d.type))
                  S == Layout(n)
              IN  \E p \in DOMAIN S.fields :
                    /\ StructField(d.type, d.name) \in Range(S.fields[p])
                    /\ p % T.align = 0
                    /\ \A k \in DOMAIN T.fields : \A x \in Range(T.fields[k]) :
                          /\ p + k \in DOMAIN S.fields
                          /\ StructField(x.type, d.name \o "." \o x.name)
                                \in Range(S.fields[p + k])
        /\ IsAnonMember(d) =>
              LET T == Layout(d.type.node)
                  S == Layout(n)
              IN  \E p \in 0..S.size :
                    /\ p % T.align = 0
                    /\ \A k \in DOMAIN T.fields : \A x \in Range(T.fields[k]) :
                          /\ p + k \in DOMAIN S.fields
                          /\ x \in Range(S.fields[p + k])

\* the second member is an aggregate placed after padding, and its second
\* field shows up under the dotted name at a shifted offset
FlatteningKeepsOffsetsSeen ==
    /\ Outer \in LaidOut
    /\ Len(nodes[Outer].decls) = 2
    /\ IsNamedMember(nodes[Outer].decls[2])
    /\ IsAggregate(nodes[Outer].decls[2].type)
    /\ \E o \in DOMAIN Layout(Outer).fields :
          /\ o > 4
          /\ \E f \in Range(Layout(Outer).fields[o]) : f.name = "b.y"

\* C4: struct B2 { unsigned a : 4; unsigned : 0; unsigned b : 4; } has size 8
\* and align 4.
ZeroWidthStartsNewUnit ==
    (/\ arg \in DOMAIN nodes
     /\ ~nodes[arg].is_union
     /\ nodes[arg].decls = DeclsB2
     /\ ret.outcome = "ok")
    => (ret.struct.size = 8 /\ ret.struct.align = 4)

\* C6: a call on a node that has an entry (under its tag, or under its identity
\* when untagged) returns that entry and changes no map; a successful call leaves
\* the returned Struct under the node's tag or identity; entries are never
\* replaced or dropped.
MemoStep ==
    LET hit == get_struct(arg', typemap)
        tagged == nodes[arg'].name # None
    IN  /\ hit.found =>
              /\ ret'.outcome = "ok"
              /\ ret'.struct = hit.struct
              /\ typemap' = typemap
        /\ (ret'.outcome = "ok" /\ tagged) =>
              /\ nodes[arg'].name \in DOMAIN typemap'.named_structs
              /\ typemap'.named_structs[nodes[arg'].name] = ret'.struct
        /\ (ret'.outcome = "ok" /\ ~tagged) =>
              /\ arg' \in DOMAIN typemap'.anon_structs
              /\ typemap'.anon_structs[arg'] = ret'.struct
        /\ \A k \in DOMAIN typemap.named_structs :
              /\ k \in DOMAIN typemap'.named_structs
              /\ typemap'.named_structs[k] = typemap.named_structs[k]
        /\ \A k \in DOMAIN typemap.anon_structs :
              /\ k \in DOMAIN typemap'.anon_structs
              /\ typemap'.anon_structs[k] = typemap.anon_structs[k]

ParseStructIsMemoized == [][MemoStep]_vars

\* a repeated call on the second of two untagged nodes with the same members,
\* each holding its own entry
ParseStructIsMemoizedSeen ==
    /\ arg = Twin /\ ret.outcome = "ok" /\ pre = typemap
    /\ nodes[Inner].name = None
    /\ nodes[Inner].decls = nodes[Twin].decls
    /\ {Inner, Twin} \subseteq DOMAIN typemap.anon_structs

\* C9 as stated: a call that ends in DecompFailure leaves both maps as they were.
FailureLeavesMapsAlone ==
    ret.outcome = "DecompFailure" => typemap = pre

AddedNamed == DOMAIN typemap.named_structs \ DOMAIN pre.named_structs
AddedAnon == DOMAIN typemap.anon_structs \ DOMAIN pre.anon_structs

\* C9 amended: after a call that ends in DecompFailure the node whose layout
\* failed has no entry, the entries held before are unchanged, and every entry
\* added is the finished layout of another aggregate.
FailureCachesOnlyFinished ==
    ret.outcome = "DecompFailure" =>
        /\ ~Cached(arg)
        /\ \A k \in DOMAIN pre.named_structs :
              /\ k \in DOMAIN typemap.named_structs
              /\ typemap.named_structs[k] = pre.named_structs[k]
        /\ \A k \in DOMAIN pre.anon_structs :
              /\ k \in DOMAIN typemap.anon_structs
              /\ typemap.anon_structs[k] = pre.anon_structs[k]
        /\ \A k \in AddedNamed :
              \E n \in DOMAIN nodes \ {arg} :
                 /\ nodes[n].name = k /\ nodes[n].has_decls
                 /\ parse_struct(n, pre).outcome = "ok"
                 /\ parse_struct(n, pre).struct = typemap.named_structs[k]
        /\ \A k \in AddedAnon :
              /\ k \in DOMAIN nodes \ {arg}
              /\ nodes[k].name = None /\ nodes[k].has_decls
              /\ parse_struct(k, pre).outcome = "ok"
              /\ parse_struct(k, pre).struct = typemap.anon_structs[k]

\* a failed call on the outer aggregate that left a nested layout behind
FailureCachesOnlyFinishedSeen ==
    /\ ret.outcome = "DecompFailure"
    /\ arg = Outer
    /\ typemap # pre
    /\ Inner \in LaidOut

(***************************************************************************)
(* SpecLoop: parse_struct on one aggregate, one iteration of               *)
(* do_parse_struct's loop at a time                                        *)
(***************************************************************************)
MaxLoopDecls == 3

LoopShapes ==
    { Shape(TRUE, CharT, NoExpr),
      Shape(TRUE, IntT, NoExpr),
      Shape(TRUE, UnsignedChar, Constant(<<"3">>)),
      Shape(TRUE, UnsignedChar, Constant(<<"6">>)),
      Shape(TRUE, UnsignedChar, Constant(<<"9">>)),
      Shape(TRUE, UnsignedShort, Constant(<<"1", "2">>)),
      Shape(TRUE, UnsignedT, Constant(<<"4">>)),
      Shape(TRUE, UnsignedT, Constant(<<"2", "0">>)),
      Shape(TRUE, UnsignedT, Constant(<<"3", "0">>)),
      Shape(TRUE, UnsignedT, Constant(<<"0", "x", "2", "0">>)),
      Shape(FALSE, UnsignedT, Constant(<<"0">>)) }

LoopAsts ==
    {Ast(FALSE, None, <<Field("x", IntT)>>, ou, Named(shapes)) :
        ou \in BOOLEAN, shapes \in SeqsUpTo(LoopShapes, MaxLoopDecls)}

InitLoop ==
    /\ nodes \in LoopAsts
    /\ ext = <<>>
    /\ typemap = TypeMap(Typedefs)
    /\ pre = typemap
    /\ arg = 0
    /\ ret = NoCall
    /\ pc = "idle"
    /\ st = <<>>
    /\ idx = 0

\* parse_struct up to the first iteration of do_parse_struct's loop
EnterLoop ==
    /\ pc = "idle"
    /\ ~get_struct(Outer, typemap).found
    /\ nodes[Outer].has_decls
    /\ nodes[Outer].decls # <<>>
    /\ pc' = "loop"
    /\ arg' = Outer
    /\ pre' = typemap
    /\ st' = Locals(typemap)
    /\ idx' = 1
    /\ UNCHANGED <<nodes, ext, typemap, ret>>

\* one iteration
Iterate ==
    /\ pc = "loop"
    /\ st.outcome = "ok"
    /\ idx <= Len(nodes[arg].decls)
    /\ st' = DeclStep(st, nodes[arg].decls[idx], nodes[arg].is_union)
    /\ idx' = idx + 1
    /\ UNCHANGED <<nodes, ext, typemap, pre, arg, ret, pc>>

\* the loop is left, by its end or by an exception; parse_struct stores and returns
LeaveLoop ==
    /\ pc = "loop"
    /\ st.outcome # "ok" \/ idx > Len(nodes[arg].decls)
    /\ pc' = "done"
    /\ IF st.outcome # "ok"
       THEN /\ ret' = [outcome |-> st.outcome, struct |-> NoStruct]
            /\ typemap' = st.tm
       ELSE /\ ret' = [outcome |-> "ok", struct |-> Finish(st, nodes[arg].is_union)]
            /\ typemap' = Store(arg, Finish(st, nodes[arg].is_union), st.tm)
    /\ UNCHANGED <<nodes, ext, pre, arg, st, idx>>

NextLoop == EnterLoop \/ Iterate \/ LeaveLoop

SpecLoop == InitLoop /\ [][NextLoop]_vars

\* the steps add up to the call
LoopAgreesWithCall ==
    pc = "done" =>
        LET r == parse_struct(arg, pre)
        IN  r.outcome = ret.outcome /\ r.struct = ret.struct /\ r.tm = typemap

BitPosition(s) == s.offset * 8 + s.bit_offset

\* an iteration that gave a struct's bitfield of non-zero width its bits
AllocatesBits ==
    /\ pc = "loop" /\ pc' = "loop" /\ idx' = idx + 1
    /\ ~nodes[arg].is_union
    /\ IsBitfield(nodes[arg].decls[idx])
    /\ parse_constant_int(nodes[arg].decls[idx].bitsize).value # 0
    /\ st'.outcome = "ok"

WithinOneUnit ==
    LET decl == nodes[arg].decls[idx]
        width == parse_constant_int(decl.bitsize).value
        ssize == parse_struct_member(decl.type, st.tm).size
        first == BitPosition(st') - width
        last == BitPosition(st') - 1
    IN  /\ first >= BitPosition(st)
        /\ (first \div 8) \div ssize = (last \div 8) \div ssize

\* C10: in a struct a bitfield of non-zero width gets its bits, after those in
\* use, inside one unit of its storage type; between declarations bit_offset is
\* in 0..7.
BitfieldsFitTheirUnit ==
    [][ /\ pc' = "loop" => st'.bit_offset \in 0..7
        /\ AllocatesBits => WithinOneUnit ]_vars

\* the second bitfield did not fit behind the first and was moved to the next unit
BitfieldsFitTheirUnitSeen ==
    /\ pc = "loop" /\ idx = 3 /\ st.outcome = "ok"
    /\ ~nodes[arg].is_union
    /\ IsBitfield(nodes[arg].decls[1])
    /\ IsBitfield(nodes[arg].decls[2])
    /\ LET s1 == DeclStep(Locals(pre), nodes[arg].decls[1], FALSE)
           width == parse_constant_int(nodes[arg].decls[2].bitsize).value
       IN  /\ s1.bit_offset # 0
           /\ width # 0
           /\ BitPosition(st) - width > BitPosition(s1)
           /\ st.bit_offset # 0

(***************************************************************************)
(* SpecFn: parse_function on one declarator                                *)
(***************************************************************************)
MaxParams == 3

ParamChoices ==
    { EllipsisParam,
      Decl("x", IntT, NoExpr),
      Decl("p", PtrDecl(VoidT), NoExpr),
      ID("a"),
      Typename(VoidT),
      Typename(IntT),
      Typename(PtrDecl(VoidT)) }

ReturnChoices == {VoidT, IntT, PtrDecl(VoidT)}

FuncDecls ==
    {FuncDecl(NoArgs, r) : r \in ReturnChoices}
    \cup {FuncDecl(ParamList(ps), r) :
            ps \in SeqsUpTo(ParamChoices, MaxParams), r \in ReturnChoices}

InitFn ==
    /\ nodes = <<>>
    /\ ext = <<>>
    /\ typemap = TypeMap(<<>>)
    /\ pre = typemap
    /\ arg \in FuncDecls
    /\ ret = NoCall
    /\ pc = "idle"
    /\ st = <<>>
    /\ idx = 0

ParseFunction ==
    /\ pc = "idle"
    /\ ret' = parse_function(arg)
    /\ pc' = "done"
    /\ UNCHANGED <<nodes, ext, typemap, pre, arg, st, idx>>

NextFn == ParseFunction

SpecFn == InitFn /\ [][NextFn]_vars

ParamsOf(fn) == IF fn.args.c = "None" THEN <<>> ELSE fn.args.params
IsListed(a) == a.c = "Decl" \/ (a.c = "Typename" /\ ~is_void(a.type))
IsExplicitVoid(a) == a.c = "Typename" /\ is_void(a.type)
AsParam(a) == Param(a.type, IF a.c = "Decl" THEN a.name ELSE None)
Listed(fn) ==
    LET kept == SelectSeq(ParamsOf(fn), IsListed)
    IN  [k \in DOMAIN kept |-> AsParam(kept[k])]

\* C5: params is absent exactly when the declarator has no Decl parameter, no
\* non-void Typename, no explicit void and no ellipsis; otherwise it is the list
\* of parameters in declaration order; is_variadic tells an ellipsis; ret_type is
\* None exactly for a void return type.
SignatureOfDeclarator ==
    (pc = "done" /\ ret.outcome = "ok") =>
        LET ps == ParamsOf(arg)
            nothing == \A k \in DOMAIN ps :
                          ~IsListed(ps[k]) /\ ~IsExplicitVoid(ps[k])
                          /\ ps[k].c # "EllipsisParam"
        IN  /\ ~ret.has_params <=> nothing
            /\ ret.has_params => ret.params = Listed(arg)
            /\ ret.is_variadic <=> \E k \in DOMAIN ps : ps[k].c = "EllipsisParam"
            /\ ~ret.has_ret_type <=> arg.type = VoidT
            /\ ret.has_ret_type => ret.ret_type = arg.type

\* f(void): an explicit void gives the empty list, not an absent one
SignatureOfDeclaratorSeen ==
    /\ pc = "done" /\ ret.outcome = "ok"
    /\ arg.args.c = "ParamList"
    /\ arg.args.params = <<Typename(VoidT)>>
    /\ ret.has_params /\ ret.params = <<>> /\ ~ret.is_variadic
    /\ ~ret.has_ret_type

(***************************************************************************)
(* SpecConst: parse_constant_int on one expression                         *)
(***************************************************************************)
MaxLit == 3

LitChars == {"0", "1", "7", "9", "x", "f", "u", "L"}

\* the integer suffixes the C lexer accepts, over u and L
Suffixes == {<<>>, <<"u">>, <<"L">>, <<"u", "L">>, <<"L", "u">>, <<"L", "L">>,
             <<"u", "L", "L">>, <<"L", "L", "u">>}

IsDecimalBody(s) == s # <<>> /\ AllDigits(s, 10) /\ (s[1] # "0" \/ Len(s) = 1)
IsOctalBody(s) == s # <<>> /\ s[1] = "0" /\ AllDigits(s, 8)
IsHexBody(s) ==
    Len(s) >= 3 /\ s[1] = "0" /\ s[2] = "x" /\ AllDigits(SubSeq(s, 3, Len(s)), 16)

\* s is an integer constant of C
IsCIntLiteral(s) ==
    \E k \in 1..Len(s) :
        /\ SubSeq(s, k + 1, Len(s)) \in Suffixes
        /\ LET body == SubSeq(s, 1, k)
           IN  IsDecimalBody(body) \/ IsOctalBody(body) \/ IsHexBody(body)

Literals == {s \in SeqsUpTo(LitChars, MaxLit) : IsCIntLiteral(s)}

Operands ==
    { Constant(<<"3">>), Constant(<<"1", "0">>), Constant(<<"0", "x", "1", "0">>),
      Constant(<<"0", "1", "0">>), Constant(<<"2", "u">>),
      BinaryOp("-", Constant(<<"1">>), Constant(<<"2">>)),
      ID("N") }

Operators == {"+", "-", "*", "<<", ">>", "/"}

Expressions ==
    {Constant(s) : s \in Literals}
    \cup Operands
    \cup {BinaryOp(op, l, r) : op \in Operators, l \in Operands, r \in Operands}

InitConst ==
    /\ nodes = <<>>
    /\ ext = <<>>
    /\ typemap = TypeMap(<<>>)
    /\ pre = typemap
    /\ arg \in Expressions
    /\ ret = NoCall
    /\ pc = "idle"
    /\ st = <<>>
    /\ idx = 0

ParseConstantInt ==
    /\ pc = "idle"
    /\ ret' = parse_constant_int(arg)
    /\ pc' = "done"
    /\ UNCHANGED <<nodes, ext, typemap, pre, arg, st, idx>>

NextConst == ParseConstantInt

SpecConst == InitConst /\ [][NextConst]_vars

\* the value C gives an integer constant: suffix dropped, 0x hexadecimal,
\* leading 0 octal, decimal otherwise
CLiteralValue(s) ==
    LET body == rstrip(s)
    IN  IF IsHexBody(body) THEN DigitsValue(SubSeq(body, 3, Len(body)), 16)
        ELSE IF body[1] = "0" THEN DigitsValue(body, 8)
        ELSE DigitsValue(body, 10)

\* C8: an integer Constant evaluates to its value by the rules of C literals
\* (010 is 8), and a BinaryOp with +, -, *, << or >> to the operator applied to
\* its evaluated operands.
ConstantFollowsCLiterals ==
    pc = "done" =>
        /\ (arg.c = "Constant" /\ IsCIntLiteral(arg.value)) =>
              ret = Ok(CLiteralValue(arg.value))
        /\ (/\ arg.c = "BinaryOp"
            /\ arg.op \in {"+", "-", "*", "<<", ">>"}
            /\ parse_constant_int(arg.left).outcome = "ok"
            /\ parse_constant_int(arg.right).outcome = "ok") =>
              ret = ApplyOp(arg.op, parse_constant_int(arg.left).value,
                            parse_constant_int(arg.right).value)

(***************************************************************************)
(* build_typemap                                                           *)
(***************************************************************************)
\* the Typedef items of the line add_builtin_typedefs puts before the source
BuiltinTypedefs ==
    << Typedef("u8", IdentifierType(<<"unsigned", "char">>)),
       Typedef("s8", IdentifierType(<<"char">>)),
       Typedef("u16", IdentifierType(<<"unsigned", "short">>)),
       Typedef("s16", IdentifierType(<<"short">>)),
       Typedef("u32", IdentifierType(<<"unsigned", "int">>)),
       Typedef("s32", IdentifierType(<<"int">>)),
       Typedef("u64", IdentifierType(<<"unsigned", "long", "long">>)),
       Typedef("s64", IdentifierType(<<"long", "long">>)),
       Typedef("f32", IdentifierType(<<"float">>)),
       Typedef("f64", IdentifierType(<<"double">>)) >>

Built(outcome, tm) == [outcome |-> outcome, tm |-> tm]

\* "ret.functions[name] = parse_function(...)"
RecordFunction(tm, name, fn) ==
    IF fn.outcome # "ok" THEN Built(fn.outcome, tm)
    ELSE Built("ok", [tm EXCEPT !.functions = Put(@, name, fn)])

\* the body of "for item in ast.ext"
RecordItem(b, item) ==
    IF b.outcome # "ok" THEN b
    ELSE IF item.c = "Typedef"
    THEN Built("ok", [b.tm EXCEPT !.typedefs = Put(@, item.name, item.type)])
    ELSE IF item.c = "FuncDef"
    THEN RecordFunction(b.tm, item.decl.name, parse_function(item.decl.type))
    ELSE IF item.c = "Decl" /\ item.type.c = "FuncDecl"
    THEN RecordFunction(b.tm, item.name, parse_function(item.type))
    ELSE b

RECURSIVE RecordItems(_, _)
RecordItems(b, items) ==
    IF items = <<>> THEN b
    ELSE RecordItems(RecordItem(b, Head(items)), Tail(items))

\* visit_Struct and visit_Union: the node's children are not visited
Dropped(r) == Built(r.outcome, r.tm)

visit_Struct(n, tm) ==
    IF nodes[n].has_decls THEN Dropped(parse_struct(n, tm)) ELSE Built("ok", tm)

visit_Enum(enum, tm) ==
    IF enum.name # None
    THEN Built("ok", [tm EXCEPT !.typedefs = Put(@, enum.name, IntT)])
    ELSE Built("ok", tm)

visit_FuncDef(fn, tm) ==
    IF fn.decl.name # None
    THEN Built("ok", [tm EXCEPT !.var_types = Put(@, fn.decl.name, fn.decl.type)])
    ELSE Built("ok", tm)

RECURSIVE Visit(_, _)
RECURSIVE VisitEach(_, _)

\* "if decl.name is not None: ret.var_types[decl.name] = decl.type"
WithVar(decl, tm) ==
    IF decl.name # None
    THEN [tm EXCEPT !.var_types = Put(@, decl.name, decl.type)]
    ELSE tm

visit_Decl(decl, tm) ==
    IF decl.type.c # "FuncDecl"
    THEN Visit(decl.type, WithVar(decl, tm))
    ELSE Built("ok", WithVar(decl, tm))

\* a FuncDecl's second child, after its parameters
VisitReturnType(node, b) ==
    IF b.outcome # "ok" THEN b ELSE Visit(node.type, b.tm)

\* NodeVisitor.visit: the visit_ method of the node's class, or generic_visit,
\* which visits the children in order
Visit(node, tm) ==
    IF node.c = "StructUnion" THEN visit_Struct(node.node, tm)
    ELSE IF node.c = "Decl" THEN visit_Decl(node, tm)
    ELSE IF node.c = "FuncDef" THEN visit_FuncDef(node, tm)
    ELSE IF node.c = "TypeDecl" THEN
        IF node.inner = "StructUnion" THEN visit_Struct(node.node, tm)
        ELSE IF node.inner = "Enum" THEN visit_Enum(node, tm)
        ELSE Built("ok", tm)
    ELSE IF node.c \in {"PtrDecl", "ArrayDecl", "Typedef", "Typename"} THEN Visit(node.type, tm)
    ELSE IF node.c = "FuncDecl" THEN
        VisitReturnType(node, IF node.args.c = "ParamList"
                              THEN VisitEach(node.args.params, Built("ok", tm))
                              ELSE Built("ok", tm))
    ELSE Built("ok", tm)

VisitEach(items, b) ==
    IF items = <<>> \/ b.outcome # "ok" THEN b
    ELSE VisitEach(Tail(items), Visit(Head(items), b.tm))

\* build_typemap on the AST of the source with the built-in typedefs in front
BuildFrom(ast) == VisitEach(ast, RecordItems(Built("ok", TypeMap(<<>>)), ast))

build_typemap(source) == BuildFrom(BuiltinTypedefs \o source)

(***************************************************************************)
(* SpecBuild: build_typemap on one translation unit                        *)
(***************************************************************************)
MaxItems == 2

\* the places a struct or union node can take in a top-level item
ItemsOf(n) ==
    { Decl(None, SUNode(n), NoExpr),
      Typedef("T", SUType(n)),
      Typedef("P", PtrDecl(SUType(n))),
      Decl("v", SUType(n), NoExpr),
      Decl("q", PtrDecl(SUType(n)), NoExpr),
      Decl("w", ArrayDecl(SUType(n), Lit("2")), NoExpr),
      Decl("f", FuncDecl(ParamList(<<Typename(VoidT)>>), SUType(n)), NoExpr),
      Decl("g", FuncDecl(ParamList(<<Decl("x", SUType(n), NoExpr)>>), IntT), NoExpr),
      FuncDef(Decl("h", FuncDecl(NoArgs, PtrDecl(SUType(n))), NoExpr)),
      Typedef("F", FuncDecl(ParamList(<<Decl("x", SUType(n), NoExpr)>>), VoidT)) }

OtherItems ==
    { Decl("k", FuncDecl(ParamList(<<ID("a")>>), IntT), NoExpr),
      Decl("e", EnumType("E"), NoExpr) }

Items == ItemsOf(Inner) \cup ItemsOf(Outer) \cup OtherItems

BuildOuterLists ==
    { <<Field("a", IntT)>>,
      <<Field("a", SUType(Inner))>>,
      <<Field("a", PtrDecl(SUType(Inner)))>>,
      <<Field("a", ArrayDecl(SUType(Inner), Lit("2")))>>,
      <<Field(None, SUNode(Inner))>>,
      <<Field("a", SUType(Inner)), Field("b", ArrayDecl(IntT, NoExpr))>> }

BuildAsts ==
    {Ast(FALSE, tag, <<Field("x", IntT), Field("y", CharT)>>, FALSE, ol) :
        tag \in Tags, ol \in BuildOuterLists}

\* the struct and union nodes below an AST node
RECURSIVE NodesIn(_)
NodesOf(n) == {n} \cup UNION {NodesIn(d) : d \in Range(nodes[n].decls)}
NodesIn(node) ==
    IF node.c = "StructUnion" THEN NodesOf(node.node)
    ELSE IF node.c = "TypeDecl"
    THEN IF node.inner = "StructUnion" THEN NodesOf(node.node) ELSE {}
    ELSE IF node.c \in {"PtrDecl", "ArrayDecl", "Typedef", "Typename", "Decl"}
    THEN NodesIn(node.type)
    ELSE IF node.c = "FuncDef" THEN NodesIn(node.decl)
    ELSE IF node.c = "FuncDecl"
    THEN NodesIn(node.type)
         \cup (IF node.args.c = "ParamList"
               THEN UNION {NodesIn(a) : a \in Range(node.args.params)}
               ELSE {})
    ELSE {}

\* every node is at one place of the translation unit
OnePlaceEach(items) ==
    \A j, k \in DOMAIN items : j # k => NodesIn(items[j]) \cap NodesIn(items[k]) = {}

InitBuild ==
    /\ nodes \in BuildAsts
    /\ ext \in {items \in SeqsUpTo(Items, MaxItems) : OnePlaceEach(items)}
    /\ typemap = TypeMap(<<>>)
    /\ pre = typemap
    /\ arg = 0
    /\ ret = NoCall
    /\ pc = "idle"
    /\ st = <<>>
    /\ idx = 0

\* the call build_typemap(ext), b being what it returns
BuildReturns(b) ==
    /\ ret' = [outcome |-> b.outcome]
    /\ typemap' = b.tm
    /\ pc' = "done"
    /\ UNCHANGED <<nodes, ext, pre, arg, st, idx>>

BuildTypemap == pc = "idle" /\ BuildReturns(build_typemap(ext))

NextBuild == BuildTypemap

SpecBuild == InitBuild /\ [][NextBuild]_vars

\* the definitions with a member list anywhere in the translation unit
Definitions ==
    {n \in UNION {NodesIn(ext[k]) : k \in DOMAIN ext} : nodes[n].has_decls}

HasEntry(n) ==
    IF nodes[n].name # None
    THEN nodes[n].name \in DOMAIN typemap.named_structs
    ELSE n \in DOMAIN typemap.anon_structs

\* C7: after build_typemap returns, every struct or union definition with a
\* member list, wherever it occurs, has its entry in named_structs or anon_structs.
EveryDefinitionLaidOut ==
    (pc = "done" /\ ret.outcome = "ok") => \A n \in Definitions : HasEntry(n)

====
